---- MODULE Spec2Model ----
(***************************************************************************)
(* KWIC index (shared-data, object-oriented variant), KWIC-SHOO.cpp.       *)
(*                                                                         *)
(* Strings are sequences of ASCII codes, so that tolower/islower/isupper   *)
(* and the whitespace split are computed, not assumed.  The pipeline       *)
(* (InputFilter -> CircularShiftFilter -> AlphabetizerFilter ->            *)
(* OutputFilter) is the specification Spec; the comparator caseSensitive   *)
(* on arbitrary strings is exercised by the specification SpecCmp.         *)
(***************************************************************************)
EXTENDS Integers, Sequences, FiniteSets, TLC

VARIABLES
    noiseReadable,  \* environment: the noise-word file can be opened
    inputReadable,  \* environment: the input file can be opened
    noiseFile,      \* environment: noise-word file, a sequence of raw lines
    inputFile,      \* environment: input file, a sequence of raw lines
    pc,             \* position of main / Pipeline::process
    noiseWords,     \* *LineRepo::noiseWords
    lines2d,        \* *LineRepo::lines2d
    li,             \* CircularShiftFilter::process: index of vect in lines2d
    i,              \* CircularShiftFilter::process: inner loop counter
    vecs,           \* heap of vector<string> objects owned by shared_ptrs
    shiftsPtr,      \* ShiftRepo::shifts (an object id in vecs)
    sortedShiftsPtr,\* SortedShiftRepo::sortedShifts (an object id in vecs)
    out,            \* lines written to cout by OutputFilter
    err,            \* messages written to cerr
    exitCode,       \* process exit status, -1 while running
    cmpA, cmpB, cmpC, \* SpecCmp: three argument strings
    cmpRes          \* SpecCmp: results of caseSensitive on them

vars == <<noiseReadable, inputReadable, noiseFile, inputFile, pc, noiseWords,
          lines2d, li, i, vecs, shiftsPtr, sortedShiftsPtr, out, err,
          exitCode, cmpA, cmpB, cmpC, cmpRes>>

pipeVars == <<noiseReadable, inputReadable, noiseFile, inputFile, pc,
              noiseWords, lines2d, li, i, vecs, shiftsPtr, sortedShiftsPtr,
              out, err, exitCode>>

cmpVars == <<cmpA, cmpB, cmpC, cmpRes>>

----------------------------------------------------------------------------
\* Bounds

\* total number of words in the input document
MaxWords == 3
\* number of lines in the input document
MaxLines == 2
\* length of the strings handed to caseSensitive in SpecCmp
MaxStrLen == 2

----------------------------------------------------------------------------
\* Characters and strings

Min(x, y) == IF x < y THEN x ELSE y

tolower(c) == IF c \in 65..90 THEN c + 32 ELSE c

islower(c) == c \in 97..122

isupper(c) == c \in 65..90

isspace(c) == c = 32 \/ c \in 9..13

toLowerString(str) == [k \in 1..Len(str) |-> tolower(str[k])]

\* the loop of caseSensitive from position k (1-based)
RECURSIVE caseSensitiveFrom(_, _, _)
caseSensitiveFrom(a, b, k) ==
    IF k > Min(Len(a), Len(b))
    THEN Len(a) < Len(b)
    ELSE IF tolower(a[k]) # tolower(b[k])
         THEN tolower(a[k]) < tolower(b[k])
         ELSE IF a[k] # b[k]
              THEN islower(a[k]) /\ isupper(b[k])
              ELSE caseSensitiveFrom(a, b, k + 1)

\* caseSensitive with the tie-break on case reversed (uppercase first)
caseSensitiveUpperFirst(a, b) ==
    LET RECURSIVE From(_)
        From(k) ==
            IF k > Min(Len(a), Len(b))
            THEN Len(a) < Len(b)
            ELSE IF tolower(a[k]) # tolower(b[k])
                 THEN tolower(a[k]) < tolower(b[k])
                 ELSE IF a[k] # b[k]
                      THEN isupper(a[k]) /\ islower(b[k])
                      ELSE From(k + 1)
    IN  From(1)

\* caseSensitive with the final length test written <=
caseSensitiveLeq(a, b) ==
    LET RECURSIVE From(_)
        From(k) ==
            IF k > Min(Len(a), Len(b))
            THEN Len(a) <= Len(b)
            ELSE IF tolower(a[k]) # tolower(b[k])
                 THEN tolower(a[k]) < tolower(b[k])
                 ELSE IF a[k] # b[k]
                      THEN islower(a[k]) /\ isupper(b[k])
                      ELSE From(k + 1)
    IN  From(1)

\* caseSensitive without the tie-break on case
caseSensitiveNoTie(a, b) ==
    LET RECURSIVE From(_)
        From(k) ==
            IF k > Min(Len(a), Len(b))
            THEN Len(a) < Len(b)
            ELSE IF tolower(a[k]) # tolower(b[k])
                 THEN tolower(a[k]) < tolower(b[k])
                 ELSE From(k + 1)
    IN  From(1)

caseSensitive(a, b) == caseSensitiveFrom(a, b, 1)

\* isNoiseWord without the lowercasing of the word
isNoiseWordExact(word, nw) == \E k \in 1..Len(nw) : nw[k] = word

\* std::find over the noise-word vector
isNoiseWord(word, nw) == \E k \in 1..Len(nw) : nw[k] = toLowerString(word)

\* stringstream >> word, repeated: split on runs of whitespace
RECURSIVE TokenizeFrom(_, _, _, _)
TokenizeFrom(line, k, cur, acc) ==
    IF k > Len(line)
    THEN IF cur = <<>> THEN acc ELSE Append(acc, cur)
    ELSE IF isspace(line[k])
         THEN TokenizeFrom(line, k + 1, <<>>,
                           IF cur = <<>> THEN acc ELSE Append(acc, cur))
         ELSE TokenizeFrom(line, k + 1, Append(cur, line[k]), acc)

Tokenize(line) == TokenizeFrom(line, 1, <<>>, <<>>)

\* for (auto &w : vect) temp += w + " ";
RECURSIVE JoinLine(_)
JoinLine(vect) ==
    IF vect = <<>> THEN <<>>
    ELSE Head(vect) \o <<32>> \o JoinLine(Tail(vect))

\* rotation to the right: std::rotate(begin, end - 1, end)
RotateRight(vect) ==
    IF vect = <<>> THEN vect
    ELSE <<vect[Len(vect)]>> \o SubSeq(vect, 1, Len(vect) - 1)

\* std::rotate(vect.begin(), vect.begin() + 1, vect.end())
Rotate(vect) == IF vect = <<>> THEN vect ELSE Append(Tail(vect), Head(vect))

\* a sort that leaves the sequence as it is
StdSortNoOp(s) == {s}

\* the arrangements of s
PermsOf(s) ==
    { [k \in 1..Len(s) |-> s[f[k]]] : f \in Permutations(1..Len(s)) }

\* std::sort(first, last, comp): some arrangement in which no element is
\* ordered before its predecessor
StdSort(s) ==
    { p \in PermsOf(s) :
        \A k \in 1..(Len(p) - 1) : ~caseSensitive(p[k + 1], p[k]) }

----------------------------------------------------------------------------
\* Inputs

w_the == <<116, 104, 101>>
w_The == <<84, 104, 101>>
w_quick == <<113, 117, 105, 99, 107>>
w_fox == <<102, 111, 120>>
w_Fox == <<70, 111, 120>>

Words == {w_The, w_fox, w_Fox}

WordSeqs(n) == UNION { [1..k -> Words] : k \in 0..n }

\* documents of k lines holding at most w words altogether
RECURSIVE DocsN(_, _)
DocsN(k, w) ==
    IF k = 0 THEN {<<>>}
    ELSE UNION { { <<l>> \o d : d \in DocsN(k - 1, w - Len(l)) }
                 : l \in WordSeqs(w) }

\* the document "the quick fox" and a variant with an empty second line
ExampleDocs == { << <<w_the, w_quick, w_fox>> >>,
                 << <<w_The, w_quick>>, <<>> >> }

Docs == UNION { DocsN(k, MaxWords) : k \in 0..MaxLines } \cup ExampleDocs

\* a raw line: the words separated by single spaces
RECURSIVE RawLine(_)
RawLine(ws) ==
    IF ws = <<>> THEN <<>>
    ELSE IF Len(ws) = 1 THEN Head(ws)
         ELSE Head(ws) \o <<32>> \o RawLine(Tail(ws))

InputFiles == { [k \in 1..Len(d) |-> RawLine(d[k])] : d \in Docs }

NoiseFiles ==
    { <<>>,
      << w_the >>,
      << <<32>> \o w_fox, <<>>, w_quick \o <<9, 32>> \o w_The >> }

CmpAlphabet == {65, 66, 95, 97}

CmpStrings == UNION { [1..k -> CmpAlphabet] : k \in 0..MaxStrLen }

NoResults == [ab |-> FALSE, ba |-> FALSE, bc |-> FALSE, cb |-> FALSE,
              ac |-> FALSE, ca |-> FALSE, aa |-> FALSE]

----------------------------------------------------------------------------
\* Pipeline

Init ==
    /\ noiseReadable \in BOOLEAN
    /\ inputReadable \in BOOLEAN
    /\ noiseFile \in NoiseFiles
    /\ inputFile \in InputFiles
    /\ pc = "openNoise"
    /\ noiseWords = <<>>
    /\ lines2d = <<>>
    /\ li = 1
    /\ i = 0
    /\ vecs = [p \in {1, 2} |-> <<>>]
    /\ shiftsPtr = 1
    /\ sortedShiftsPtr = 2
    /\ out = <<>>
    /\ err = <<>>
    /\ exitCode = -1
    /\ cmpA = <<>>
    /\ cmpB = <<>>
    /\ cmpC = <<>>
    /\ cmpRes = NoResults

\* the tokens of all lines of a file, in order
RECURSIVE FileTokens(_)
FileTokens(file) ==
    IF file = <<>> THEN <<>>
    ELSE Tokenize(Head(file)) \o FileTokens(Tail(file))

\* InputFilter::process, noise-word file cannot be opened
NoiseOpenFail ==
    /\ pc = "openNoise"
    /\ ~noiseReadable
    /\ err' = Append(err, "Error opening noise words file")
    /\ exitCode' = 1
    /\ pc' = "exited"
    /\ UNCHANGED <<noiseReadable, inputReadable, noiseFile, inputFile,
                   noiseWords, lines2d, li, i, vecs, shiftsPtr,
                   sortedShiftsPtr, out>>
    /\ UNCHANGED cmpVars

\* InputFilter::process, noise words read and stored in lowercase
LoadNoise ==
    /\ pc = "openNoise"
    /\ noiseReadable
    /\ noiseWords' = noiseWords \o
           [k \in 1..Len(FileTokens(noiseFile)) |->
               toLowerString(FileTokens(noiseFile)[k])]
    /\ pc' = "openInput"
    /\ UNCHANGED <<noiseReadable, inputReadable, noiseFile, inputFile,
                   lines2d, li, i, vecs, shiftsPtr, sortedShiftsPtr, out,
                   err, exitCode>>
    /\ UNCHANGED cmpVars

\* the input file cannot be opened, the error is reported, exit(1) is
\* missing: nothing is read and the pipeline goes on
InputOpenFailNoExit ==
    /\ pc = "openInput"
    /\ ~inputReadable
    /\ err' = Append(err, "Error opening input file")
    /\ pc' = "shift"
    /\ li' = 1
    /\ i' = 0
    /\ UNCHANGED <<noiseReadable, inputReadable, noiseFile, inputFile,
                   noiseWords, lines2d, vecs, shiftsPtr, sortedShiftsPtr,
                   out, exitCode>>
    /\ UNCHANGED cmpVars

\* InputFilter::process, input file cannot be opened
InputOpenFail ==
    /\ pc = "openInput"
    /\ ~inputReadable
    /\ err' = Append(err, "Error opening input file")
    /\ exitCode' = 1
    /\ pc' = "exited"
    /\ UNCHANGED <<noiseReadable, inputReadable, noiseFile, inputFile,
                   noiseWords, lines2d, li, i, vecs, shiftsPtr,
                   sortedShiftsPtr, out>>
    /\ UNCHANGED cmpVars

\* InputFilter::process, lines read and tokenized
LoadInput ==
    /\ pc = "openInput"
    /\ inputReadable
    /\ lines2d' = lines2d \o
           [k \in 1..Len(inputFile) |-> Tokenize(inputFile[k])]
    /\ pc' = "shift"
    /\ li' = 1
    /\ i' = 0
    /\ UNCHANGED <<noiseReadable, inputReadable, noiseFile, inputFile,
                   noiseWords, vecs, shiftsPtr, sortedShiftsPtr, out, err,
                   exitCode>>
    /\ UNCHANGED cmpVars

\* the inner loop with std::rotate moved inside the if
ShiftStepRotateIfEmitted ==
    /\ pc = "shift"
    /\ li <= Len(lines2d)
    /\ i < Len(lines2d[li])
    /\ vecs' = IF ~isNoiseWord(lines2d[li][1], noiseWords)
               THEN [vecs EXCEPT ![shiftsPtr] =
                        Append(@, JoinLine(lines2d[li]))]
               ELSE vecs
    /\ lines2d' = IF ~isNoiseWord(lines2d[li][1], noiseWords)
                  THEN [lines2d EXCEPT ![li] = Rotate(@)]
                  ELSE lines2d
    /\ i' = i + 1
    /\ UNCHANGED <<noiseReadable, inputReadable, noiseFile, inputFile, pc,
                   noiseWords, li, shiftsPtr, sortedShiftsPtr, out, err,
                   exitCode>>
    /\ UNCHANGED cmpVars

\* CircularShiftFilter::process, one iteration of the inner loop
ShiftStep ==
    /\ pc = "shift"
    /\ li <= Len(lines2d)
    /\ i < Len(lines2d[li])
    /\ vecs' = IF ~isNoiseWord(lines2d[li][1], noiseWords)
               THEN [vecs EXCEPT ![shiftsPtr] =
                        Append(@, JoinLine(lines2d[li]))]
               ELSE vecs
    /\ lines2d' = [lines2d EXCEPT ![li] = Rotate(@)]
    /\ i' = i + 1
    /\ UNCHANGED <<noiseReadable, inputReadable, noiseFile, inputFile, pc,
                   noiseWords, li, shiftsPtr, sortedShiftsPtr, out, err,
                   exitCode>>
    /\ UNCHANGED cmpVars

\* CircularShiftFilter::process, inner loop ends, next vect
ShiftNextLine ==
    /\ pc = "shift"
    /\ li <= Len(lines2d)
    /\ i >= Len(lines2d[li])
    /\ li' = li + 1
    /\ i' = 0
    /\ UNCHANGED <<noiseReadable, inputReadable, noiseFile, inputFile, pc,
                   noiseWords, lines2d, vecs, shiftsPtr, sortedShiftsPtr,
                   out, err, exitCode>>
    /\ UNCHANGED cmpVars

\* CircularShiftFilter::process returns
ShiftDone ==
    /\ pc = "shift"
    /\ li > Len(lines2d)
    /\ pc' = "sort"
    /\ UNCHANGED <<noiseReadable, inputReadable, noiseFile, inputFile,
                   noiseWords, lines2d, li, i, vecs, shiftsPtr,
                   sortedShiftsPtr, out, err, exitCode>>
    /\ UNCHANGED cmpVars

\* SortedShiftRepo::copy: the shared_ptr is assigned, the vector it owned
\* before is released
CopyPtr(sharedVect) == sharedVect

\* AlphabetizerFilter::process
Alphabetize ==
    /\ pc = "sort"
    /\ sortedShiftsPtr' = CopyPtr(shiftsPtr)
    /\ \E sorted \in StdSort(vecs[sortedShiftsPtr']) :
          vecs' = [p \in {shiftsPtr, sortedShiftsPtr'} |->
                      IF p = sortedShiftsPtr' THEN sorted ELSE vecs[p]]
    /\ pc' = "output"
    /\ UNCHANGED <<noiseReadable, inputReadable, noiseFile, inputFile,
                   noiseWords, lines2d, li, i, shiftsPtr, out, err,
                   exitCode>>
    /\ UNCHANGED cmpVars

\* OutputFilter::process
Output ==
    /\ pc = "output"
    /\ out' = out \o vecs[sortedShiftsPtr]
    /\ pc' = "timing"
    /\ UNCHANGED <<noiseReadable, inputReadable, noiseFile, inputFile,
                   noiseWords, lines2d, li, i, vecs, shiftsPtr,
                   sortedShiftsPtr, err, exitCode>>
    /\ UNCHANGED cmpVars

\* main: Pipeline::process has returned, return 0
Finish ==
    /\ pc = "timing"
    /\ exitCode' = 0
    /\ pc' = "exited"
    /\ UNCHANGED <<noiseReadable, inputReadable, noiseFile, inputFile,
                   noiseWords, lines2d, li, i, vecs, shiftsPtr,
                   sortedShiftsPtr, out, err>>
    /\ UNCHANGED cmpVars

Next ==
    \/ NoiseOpenFail
    \/ LoadNoise
    \/ InputOpenFail
    \/ LoadInput
    \/ ShiftStep
    \/ ShiftNextLine
    \/ ShiftDone
    \/ Alphabetize
    \/ Output
    \/ Finish

Spec == Init /\ [][Next]_vars

----------------------------------------------------------------------------
\* The comparator on arbitrary strings

InitCmp ==
    /\ cmpA \in CmpStrings
    /\ cmpB \in CmpStrings
    /\ cmpC \in CmpStrings
    /\ cmpRes = NoResults
    /\ pc = "compare"
    /\ noiseReadable = TRUE
    /\ inputReadable = TRUE
    /\ noiseFile = <<>>
    /\ inputFile = <<>>
    /\ noiseWords = <<>>
    /\ lines2d = <<>>
    /\ li = 1
    /\ i = 0
    /\ vecs = [p \in {1, 2} |-> <<>>]
    /\ shiftsPtr = 1
    /\ sortedShiftsPtr = 2
    /\ out = <<>>
    /\ err = <<>>
    /\ exitCode = -1

\* caseSensitive applied to every ordered pair of the three strings
Compare ==
    /\ pc = "compare"
    /\ cmpRes' = [ab |-> caseSensitive(cmpA, cmpB),
                  ba |-> caseSensitive(cmpB, cmpA),
                  bc |-> caseSensitive(cmpB, cmpC),
                  cb |-> caseSensitive(cmpC, cmpB),
                  ac |-> caseSensitive(cmpA, cmpC),
                  ca |-> caseSensitive(cmpC, cmpA),
                  aa |-> caseSensitive(cmpA, cmpA)]
    /\ pc' = "compared"
    /\ UNCHANGED <<cmpA, cmpB, cmpC>>
    /\ UNCHANGED <<noiseReadable, inputReadable, noiseFile, inputFile,
                   noiseWords, lines2d, li, i, vecs, shiftsPtr,
                   sortedShiftsPtr, out, err, exitCode>>

NextCmp == Compare

SpecCmp == InitCmp /\ [][NextCmp]_vars

----------------------------------------------------------------------------
\* What the stages are expected to produce, stated from the document

\* the Lines as parsed by InputFilter
Orig == [k \in 1..Len(inputFile) |-> Tokenize(inputFile[k])]

\* the noise-word set
NoiseSet == { toLowerString(FileTokens(noiseFile)[k]) :
                k \in 1..Len(FileTokens(noiseFile)) }

\* offset k (0-based) of line is a noise-word start position
NoiseAt(line, k) == toLowerString(line[k + 1]) \in NoiseSet

\* line[k], line[k+1], ..., line[n-1], line[0], ..., line[k-1] (0-based),
\* each word followed by one space
RotationAt(line, k) ==
    LET n == Len(line)
        RECURSIVE Cat(_)
        Cat(j) == IF j >= n THEN <<>>
                  ELSE line[((k + j) % n) + 1] \o <<32>> \o Cat(j + 1)
    IN  Cat(0)

\* the rotations of line for the eligible offsets below upto, increasing
RotationsOf(line, upto) ==
    LET RECURSIVE From(_)
        From(k) == IF k >= upto THEN <<>>
                   ELSE (IF NoiseAt(line, k) THEN <<>>
                         ELSE <<RotationAt(line, k)>>) \o From(k + 1)
    IN  From(0)

\* the rotations of the Lines before Line l (1-based), in document order,
\* then those of Line l for the offsets below upto
RotationsUpTo(l, upto) ==
    LET RECURSIVE Lines(_)
        Lines(k) == IF k >= l THEN <<>>
                    ELSE RotationsOf(Orig[k], Len(Orig[k])) \o Lines(k + 1)
    IN  Lines(1) \o (IF l <= Len(Orig) THEN RotationsOf(Orig[l], upto)
                     ELSE <<>>)

AllRotations == RotationsUpTo(Len(Orig) + 1, 0)

\* number of eligible offsets below upto
EligibleCount(line, upto) ==
    Cardinality({ k \in 0..(upto - 1) : ~NoiseAt(line, k) })

\* number of occurrences of x in s
Count(s, x) == Cardinality({ k \in 1..Len(s) : s[k] = x })

\* line rotated left k times
RECURSIVE RotL(_, _)
RotL(line, k) ==
    IF k = 0 \/ line = <<>> THEN line
    ELSE RotL(SubSeq(line, 2, Len(line)) \o <<line[1]>>, k - 1)

Loaded == pc \in {"shift", "sort", "output", "timing"}
              \/ (pc = "exited" /\ exitCode = 0)

Sorted == pc \in {"output", "timing"} \/ (pc = "exited" /\ exitCode = 0)

ExampleRun ==
    /\ inputFile = << RawLine(<<w_the, w_quick, w_fox>>) >>
    /\ NoiseSet = {w_the}

----------------------------------------------------------------------------
\* C1: while CircularShiftFilter runs, the number of rotations emitted so
\* far is the number of offsets visited so far whose word, lowercased, is
\* not a noise word (one rotation for each such offset, none for the
\* others); when it has finished, every Line of n words with m noise-word
\* start positions has contributed n - m rotations, a zero-word Line none.
C1_RotationCount ==
    LET NoiseCount(line) ==
            Cardinality({ k \in 0..(Len(line) - 1) : NoiseAt(line, k) })
        RECURSIVE Before(_)
        Before(l) == IF l <= 1 THEN 0
                     ELSE Before(l - 1) + Len(Orig[l - 1])
                              - NoiseCount(Orig[l - 1])
    IN  /\ (pc = "shift" /\ li <= Len(Orig)) =>
              Len(vecs[shiftsPtr]) =
                  Before(li) + EligibleCount(Orig[li], i)
        /\ (pc = "sort" \/ (pc = "shift" /\ li > Len(Orig))) =>
              Len(vecs[shiftsPtr]) = Before(Len(Orig) + 1)
        /\ (pc = "shift" /\ li <= Len(Orig) /\ Orig[li] = <<>>) =>
              Len(vecs[shiftsPtr]) = Before(li)

\* a Line with a repeated word and an upper-case noise-word start has been
\* processed: fewer rotations than words, more than none
C1_Witness ==
    /\ pc = "sort"
    /\ \E l \in 1..Len(Orig) :
         /\ Len(Orig[l]) = 3
         /\ Orig[l][1] = w_The /\ Orig[l][2] = w_fox /\ Orig[l][3] = w_fox
    /\ NoiseSet = {w_the}
    /\ Len(vecs[shiftsPtr]) = 2

\* C2: the sequence emitted by CircularShiftFilter, before sorting, is the
\* rotations line[i], ..., line[n-1], line[0], ..., line[i-1], each word
\* followed by one space, by increasing offset within a Line and Lines in
\* document order.
C2_RotationContent ==
    pc \in {"shift", "sort"} =>
        vecs[shiftsPtr] =
            RotationsUpTo(li, IF li <= Len(Orig) THEN i ELSE 0)

\* two Lines, the first with two eligible offsets, have been rotated
C2_Witness ==
    /\ pc = "sort"
    /\ Len(Orig) = 2
    /\ Orig[1] = <<w_The, w_fox>>
    /\ Orig[2] = <<w_Fox>>
    /\ vecs[shiftsPtr] = << w_The \o <<32>> \o w_fox \o <<32>>,
                            w_fox \o <<32>> \o w_The \o <<32>>,
                            w_Fox \o <<32>> >>

\* C3: caseSensitive(a, b) is decided by the first position of the shared
\* prefix at which a and b differ: by the folded characters if they differ,
\* else lowercase before uppercase; with no such position, by length.
C3_Decision(a, b, r) ==
    LET D == { k \in 1..Min(Len(a), Len(b)) : a[k] # b[k] }
    IN  IF D = {}
        THEN r = (Len(a) < Len(b))
        ELSE LET k == CHOOSE x \in D : \A y \in D : x <= y
             IN  IF tolower(a[k]) # tolower(b[k])
                 THEN r = (tolower(a[k]) < tolower(b[k]))
                 ELSE r = (islower(a[k]) /\ isupper(b[k]))

C3_Comparator ==
    pc = "compared" =>
        /\ C3_Decision(cmpA, cmpB, cmpRes.ab)
        /\ C3_Decision(cmpB, cmpA, cmpRes.ba)
        /\ C3_Decision(cmpB, cmpC, cmpRes.bc)
        /\ C3_Decision(cmpC, cmpB, cmpRes.cb)
        /\ C3_Decision(cmpA, cmpC, cmpRes.ac)
        /\ C3_Decision(cmpC, cmpA, cmpRes.ca)
        /\ C3_Decision(cmpA, cmpA, cmpRes.aa)
        \* "a" before "A", "a" before "B", "aa" before "aB"
        /\ (cmpA = <<97>> /\ cmpB = <<65>>) => (cmpRes.ab /\ ~cmpRes.ba)
        /\ (cmpA = <<97>> /\ cmpB = <<66>>) => (cmpRes.ab /\ ~cmpRes.ba)
        /\ (cmpA = <<97, 97>> /\ cmpB = <<97, 66>>) =>
              (cmpRes.ab /\ ~cmpRes.ba)

\* a lowercase and an uppercase form of the same letter sequence, and a
\* third string with a different letter, have been compared
C3_Witness ==
    /\ pc = "compared"
    /\ cmpA = <<97, 97>>
    /\ cmpB = <<97, 65>>
    /\ cmpC = <<66>>
    /\ cmpRes.ab /\ ~cmpRes.ba /\ cmpRes.ac /\ ~cmpRes.ca

\* C4: caseSensitive is a strict weak ordering: irreflexive, asymmetric,
\* transitive, and with a transitive incomparability relation.
C4_StrictWeakOrdering ==
    pc = "compared" =>
        /\ ~cmpRes.aa
        /\ ~(cmpRes.ab /\ cmpRes.ba)
        /\ ~(cmpRes.bc /\ cmpRes.cb)
        /\ ~(cmpRes.ac /\ cmpRes.ca)
        /\ (cmpRes.ab /\ cmpRes.bc) => cmpRes.ac
        /\ (cmpRes.cb /\ cmpRes.ba) => cmpRes.ca
        /\ (~cmpRes.ab /\ ~cmpRes.ba /\ ~cmpRes.bc /\ ~cmpRes.cb) =>
              (~cmpRes.ac /\ ~cmpRes.ca)

\* three different strings that the comparator chains
C4_Witness ==
    /\ pc = "compared"
    /\ cmpA = <<97>> /\ cmpB = <<65>> /\ cmpC = <<65, 95>>
    /\ cmpRes.ab /\ cmpRes.bc /\ cmpRes.ac

\* C5: what AlphabetizerFilter hands to OutputFilter is a permutation of the
\* multiset of all rotations of all Lines and is ordered: no element is
\* ordered by caseSensitive before its predecessor; for "the quick fox" with
\* noise words {"the"} it is "fox the quick" then "quick fox the" (each with
\* the separator that follows every word); OutputFilter writes that sequence.
C5_SortedPermutation ==
    Sorted =>
        LET s == vecs[sortedShiftsPtr]
        IN  /\ Len(s) = Len(AllRotations)
            /\ \A k \in 1..Len(s) : Count(s, s[k]) = Count(AllRotations, s[k])
            /\ \A k \in 1..(Len(s) - 1) : ~caseSensitive(s[k + 1], s[k])
            /\ ExampleRun =>
                 s = << RawLine(<<w_fox, w_the, w_quick>>) \o <<32>>,
                        RawLine(<<w_quick, w_fox, w_the>>) \o <<32>> >>
            /\ pc \in {"timing", "exited"} => out = s

\* the run on "the quick fox" with noise words {"the"} has written its index
C5_Witness ==
    /\ pc = "exited"
    /\ exitCode = 0
    /\ ExampleRun
    /\ out = << RawLine(<<w_fox, w_the, w_quick>>) \o <<32>>,
                RawLine(<<w_quick, w_fox, w_the>>) \o <<32>> >>
    /\ AllRotations # out

\* C6: after AlphabetizerFilter.process the sequence held by ShiftRepo is
\* still the rotations in the order in which they were appended, and
\* SortedShiftRepo holds a separate vector.
C6_InputNotMutated ==
    Sorted =>
        /\ vecs[shiftsPtr] = AllRotations
        /\ sortedShiftsPtr # shiftsPtr

C8_OpenFailure ==
    (~noiseReadable \/ ~inputReadable) =>
        /\ pc \in {"openNoise", "openInput", "exited"}
        /\ vecs[shiftsPtr] = <<>>
        /\ vecs[sortedShiftsPtr] = <<>>
        /\ lines2d = <<>>
        /\ out = <<>>
        /\ pc = "exited" => (exitCode = 1 /\ Len(err) = 1 /\ ~ENABLED Next)
        /\ (pc = "exited" /\ ~noiseReadable) => noiseWords = <<>>

\* the noise words were loaded, then the input document of eligible words
\* could not be opened
C8_Witness ==
    /\ pc = "exited"
    /\ noiseReadable
    /\ ~inputReadable
    /\ noiseWords # <<>>
    /\ Len(inputFile) = 2
    /\ inputFile[1] = RawLine(<<w_Fox, w_fox>>)
    /\ err = <<"Error opening input file">>

\* C9: of two different rotations exactly one is ordered before the other,
\* and every arrangement of the generated rotations has one sorted
\* arrangement only, the one AlphabetizerFilter produced.
C9_OrderIndependent ==
    pc = "output" =>
        /\ \A a \in { AllRotations[k] : k \in 1..Len(AllRotations) } :
             \A b \in { AllRotations[k] : k \in 1..Len(AllRotations) } :
                a # b => (caseSensitive(a, b) # caseSensitive(b, a))
        /\ \A q \in PermsOf(AllRotations) :
             StdSort(q) = { vecs[sortedShiftsPtr] }

\* rotations that differ in case only were generated in the order opposite
\* to the sorted one
C9_Witness ==
    /\ pc = "output"
    /\ Orig = << <<w_Fox, w_fox>> >>
    /\ NoiseSet = {}
    /\ AllRotations = << RawLine(<<w_Fox, w_fox>>) \o <<32>>,
                         RawLine(<<w_fox, w_Fox>>) \o <<32>> >>
    /\ vecs[sortedShiftsPtr] = << AllRotations[2], AllRotations[1] >>

\* C10: after i inner iterations the Line being processed is its original
\* rotated left i times, whether or not rotations were emitted, the other
\* Lines are in their original order, and so is every Line once
\* CircularShiftFilter has returned.
C10_RotatedBack ==
    /\ pc = "shift" =>
         \A l \in 1..Len(lines2d) :
            lines2d[l] = IF l = li THEN RotL(Orig[l], i) ELSE Orig[l]
    /\ pc = "shift" /\ li <= Len(lines2d) /\ i = Len(lines2d[li]) =>
         lines2d[li] = Orig[li]
    /\ pc \in {"sort", "output", "timing"} => lines2d = Orig

\* a Line of three words, two of them noise words, has been rotated three
\* times and one rotation was emitted
C10_Witness ==
    /\ pc = "shift"
    /\ li = 1
    /\ i = 3
    /\ Orig[1] = <<w_The, w_fox, w_The>>
    /\ NoiseSet = {w_the}
    /\ Len(vecs[shiftsPtr]) = 1
    /\ lines2d[1] = Orig[1]

====
